---- MODULE Spec2Model ----
(***************************************************************************)
(* Model of swagger-generator (src/src/main.rs): a Swagger document is     *)
(* read, one TypeScript interface file is written per schema definition    *)
(* and one service module with one function per (path, method) pair.       *)
(*                                                                         *)
(* Text is modelled as sequences of one-character strings wherever the     *)
(* code inspects or rewrites it (paths, operation ids, references, file    *)
(* names, generated names).  Text that is only copied (info strings, host, *)
(* property names, item kinds matched by equality) is an atomic string.    *)
(* A format!() call that only lays values out is modelled as a record of   *)
(* the values it lays out.  Option<T> is a sequence of length <= 1.        *)
(***************************************************************************)
EXTENDS Integers, Sequences, FiniteSets, TLC

VARIABLES pc, input, swagger, todo, initial_dir, interfaces_dir, service_file,
          run, first_run

vars == <<pc, input, swagger, todo, initial_dir, interfaces_dir, service_file,
          run, first_run>>

----------------------------------------------------------------------------
(* Option<T> *)

None == <<>>

Some(x) == <<x>>

IsSome(o) == o # <<>>

Unwrap(o) == o[1]

----------------------------------------------------------------------------
(* String literals of the source, as character sequences. *)

STR_number == <<"n", "u", "m", "b", "e", "r">>

STR_string == <<"s", "t", "r", "i", "n", "g">>

STR_boolean == <<"b", "o", "o", "l", "e", "a", "n">>

STR_any == <<"a", "n", "y">>

STR_number_arr == <<"n", "u", "m", "b", "e", "r", "[", "]">>

STR_string_arr == <<"s", "t", "r", "i", "n", "g", "[", "]">>

STR_boolean_arr == <<"b", "o", "o", "l", "e", "a", "n", "[", "]">>

STR_any_arr == <<"a", "n", "y", "[", "]">>

STR_unknown == <<"u", "n", "k", "n", "o", "w", "n">>

STR_ById == <<"B", "y", "I", "d">>

STR_definitions_prefix ==
    <<"#", "/", "d", "e", "f", "i", "n", "i", "t", "i", "o", "n", "s", "/">>

STR_Promise_open == <<"P", "r", "o", "m", "i", "s", "e", "<">>

STR_Promise_close == <<">">>

STR_Promise_any == <<"P", "r", "o", "m", "i", "s", "e", "<", "a", "n", "y", ">">>

STR_dot_ts == <<".", "t", "s">>

STR_get == <<"g", "e", "t">>

STR_post == <<"p", "o", "s", "t">>

STR_put == <<"p", "u", "t">>

STR_delete == <<"d", "e", "l", "e", "t", "e">>

----------------------------------------------------------------------------
(* std::str operations used by the source. *)

LowerLetters ==
    <<"a", "b", "c", "d", "e", "f", "g", "h", "i", "j", "k", "l", "m",
      "n", "o", "p", "q", "r", "s", "t", "u", "v", "w", "x", "y", "z">>

UpperLetters ==
    <<"A", "B", "C", "D", "E", "F", "G", "H", "I", "J", "K", "L", "M",
      "N", "O", "P", "Q", "R", "S", "T", "U", "V", "W", "X", "Y", "Z">>

(* char::to_uppercase on the ASCII characters of the model's alphabet *)
ToUpperChar(c) ==
    IF \E i \in DOMAIN LowerLetters : LowerLetters[i] = c
    THEN UpperLetters[CHOOSE i \in DOMAIN LowerLetters : LowerLetters[i] = c]
    ELSE c

(* char lowercase mapping, as str::to_lowercase applies it per character *)
ToLowerChar(c) ==
    IF \E i \in DOMAIN UpperLetters : UpperLetters[i] = c
    THEN LowerLetters[CHOOSE i \in DOMAIN UpperLetters : UpperLetters[i] = c]
    ELSE c

(* str::to_lowercase *)
ToLowercase(s) == [i \in DOMAIN s |-> ToLowerChar(s[i])]

(* str::starts_with *)
StartsWith(s, p) == Len(s) >= Len(p) /\ SubSeq(s, 1, Len(p)) = p

(* str::ends_with *)
EndsWith(s, p) == Len(s) >= Len(p) /\ SubSeq(s, Len(s) - Len(p) + 1, Len(s)) = p

(* str::split(char): the pieces between the separators, empty pieces kept;
   the empty string splits into one empty piece. *)
RECURSIVE Split(_, _)
Split(s, c) ==
    IF s = <<>> THEN << <<>> >>
    ELSE LET rest == Split(Tail(s), c)
         IN  IF Head(s) = c
             THEN << <<>> >> \o rest
             ELSE << <<Head(s)>> \o Head(rest) >> \o Tail(rest)

(* [&str]::join(sep) *)
RECURSIVE Join(_, _)
Join(pieces, sep) ==
    IF pieces = <<>> THEN <<>>
    ELSE IF Len(pieces) = 1 THEN Head(pieces)
    ELSE Head(pieces) \o sep \o Join(Tail(pieces), sep)

(* Iterator::collect::<String>() over pieces: plain concatenation *)
RECURSIVE ConcatAll(_)
ConcatAll(pieces) ==
    IF pieces = <<>> THEN <<>> ELSE Head(pieces) \o ConcatAll(Tail(pieces))

(* str::replace(from, to), from non-empty: every non-overlapping match of
   from, scanning left to right, is replaced by to. *)
RECURSIVE Replace(_, _, _)
Replace(s, from, to) ==
    IF s = <<>> THEN <<>>
    ELSE IF StartsWith(s, from)
         THEN to \o Replace(SubSeq(s, Len(from) + 1, Len(s)), from, to)
         ELSE <<Head(s)>> \o Replace(Tail(s), from, to)

(* Vec::contains *)
Contains(vec, x) == \E i \in DOMAIN vec : vec[i] = x

(* all orders in which the keys of a collection can be enumerated *)
Orders(S) ==
    {o \in [1..Cardinality(S) -> S] : \A i, j \in DOMAIN o : o[i] = o[j] => i = j}

----------------------------------------------------------------------------
(* serde_json::Value, as far as the source looks into it. *)

VString(s) == [tag |-> "string", str |-> s, fields |-> <<>>]

VNumber == [tag |-> "number", str |-> "", fields |-> <<>>]

VObject(f) == [tag |-> "object", str |-> "", fields |-> f]

(* Value::get(key): Some only on an object that has the key *)
ValueGet(v, key) ==
    IF v.tag = "object" /\ key \in DOMAIN v.fields THEN Some(v.fields[key]) ELSE None

(* Value::as_str: Some only on a JSON string *)
AsStr(v) == IF v.tag = "string" THEN Some(v.str) ELSE None

----------------------------------------------------------------------------
(* The clock reading chrono::Local::now() formats; one day throughout. *)
GeneratedDate == "2024-06-01"

(* generate_info_comment panics when info lacks one of the three keys
   (HashMap index) or holds a non-string under it (as_str().unwrap()). *)
InfoCommentPanics(doc) ==
    \E key \in {"version", "title", "description"} :
        \/ key \notin DOMAIN doc.info
        \/ ~IsSome(AsStr(doc.info[key]))

(* the header comment generate_info_comment appends *)
generate_info_comment(doc) ==
    [version     |-> Unwrap(AsStr(doc.info["version"])),
     title       |-> Unwrap(AsStr(doc.info["title"])),
     description |-> Unwrap(AsStr(doc.info["description"])),
     generated   |-> GeneratedDate]

----------------------------------------------------------------------------
(* Type emitter *)

(* prop.additional["items"] panics when the flattened map has no such key *)
PropertyPanics(prop) ==
    /\ prop.property_type = Some("array")
    /\ "items" \notin DOMAIN prop.additional

(* the match on prop.property_type *)
TsType(prop) ==
    IF prop.property_type = Some("integer") THEN STR_number
    ELSE IF prop.property_type = Some("string") THEN STR_string
    ELSE IF prop.property_type = Some("boolean") THEN STR_boolean
    ELSE IF prop.property_type = Some("array") THEN
        LET items == prop.additional["items"]
            item_type == IF IsSome(ValueGet(items, "type"))
                         THEN AsStr(Unwrap(ValueGet(items, "type")))
                         ELSE None
        IN  IF IsSome(item_type)
            THEN IF Unwrap(item_type) = "integer" THEN STR_number_arr
                 ELSE IF Unwrap(item_type) = "string" THEN STR_string_arr
                 ELSE IF Unwrap(item_type) = "boolean" THEN STR_boolean_arr
                 ELSE STR_any_arr
            ELSE STR_any_arr
    ELSE IF prop.property_type = Some("object") THEN
        IF IsSome(prop.reference) THEN Unwrap(prop.reference) ELSE STR_any
    ELSE STR_any

(* a variant that reads an absent required list as "nothing is required" *)
OptionalMark_AbsentMeansOptional(definition, prop_name) ==
    IF ~IsSome(definition.required) \/ ~Contains(Unwrap(definition.required), prop_name)
    THEN "?" ELSE ""

(* the optional marker of one property *)
OptionalMark(definition, prop_name) ==
    IF IsSome(definition.required) /\ ~Contains(Unwrap(definition.required), prop_name)
    THEN "?" ELSE ""

(* one "    name?: type;" line *)
FieldLine(definition, properties, prop_name) ==
    [prop_name |-> prop_name,
     optional  |-> OptionalMark(definition, prop_name),
     ts_type   |-> TsType(properties[prop_name])]

(* generate_typescript_interface; order is the order in which the HashMap of
   properties yields its keys (ignored when there are no properties). *)
generate_typescript_interface(doc, name, definition, order) ==
    LET properties == IF IsSome(definition.properties)
                      THEN Unwrap(definition.properties) ELSE <<>>
        keys == IF IsSome(definition.properties) THEN order ELSE <<>>
    IN  IF \/ InfoCommentPanics(doc)
           \/ \E i \in DOMAIN keys : PropertyPanics(properties[keys[i]])
        THEN [panicked |-> TRUE]
        ELSE [panicked |-> FALSE,
              header   |-> generate_info_comment(doc),
              name     |-> name,
              fields   |-> [i \in DOMAIN keys |->
                               FieldLine(definition, properties, keys[i])]]

----------------------------------------------------------------------------
(* Operation emitter *)

(* extract_path_params: the inside of every '/'-piece that starts with '{'
   and ends with '}', in order *)
RECURSIVE ParamsOf(_)
ParamsOf(segments) ==
    IF segments = <<>> THEN <<>>
    ELSE LET segment == Head(segments)
         IN  IF StartsWith(segment, <<"{">>) /\ EndsWith(segment, <<"}">>)
             THEN <<SubSeq(segment, 2, Len(segment) - 1)>> \o ParamsOf(Tail(segments))
             ELSE ParamsOf(Tail(segments))

extract_path_params(path) == ParamsOf(Split(path, "/"))

(* .filter(|s| !s.is_empty() && !s.starts_with('{')) *)
RECURSIVE LiteralSegments(_)
LiteralSegments(segments) ==
    IF segments = <<>> THEN <<>>
    ELSE LET s == Head(segments)
         IN  IF s # <<>> /\ ~StartsWith(s, <<"{">>)
             THEN <<s>> \o LiteralSegments(Tail(segments))
             ELSE LiteralSegments(Tail(segments))

(* the path-derived operation id *)
FallbackOperationId(path) == Join(LiteralSegments(Split(path, "/")), <<"_">>)

(* the operation id the name is built from *)
FinalOperationId(path, operation) ==
    LET operation_id == IF IsSome(operation.operation_id)
                        THEN Unwrap(operation.operation_id) ELSE STR_unknown
    IN  IF operation_id = STR_unknown THEN FallbackOperationId(path) ELSE operation_id

(* first character upper-cased, the rest kept *)
Capitalize(s) == IF s = <<>> THEN <<>> ELSE <<ToUpperChar(Head(s))>> \o Tail(s)

(* split('_'), capitalize every piece, concatenate *)
CamelCase(id) ==
    LET pieces == Split(id, "_")
    IN  ConcatAll([i \in DOMAIN pieces |-> Capitalize(pieces[i])])

(* "p1: string, p2: string, " or the empty string *)
ParamsDeclaration(path_params) ==
    IF path_params = <<>> THEN <<>>
    ELSE Join([i \in DOMAIN path_params |-> path_params[i] \o <<":", " ", "s", "t", "r", "i", "n", "g">>],
              <<",", " ">>) \o <<",", " ">>

(* the fold that rewrites {param} to ${param}, one replace per extracted
   parameter, each over the whole accumulated string *)
RECURSIVE FormattedPath(_, _)
FormattedPath(acc, path_params) ==
    IF path_params = <<>> THEN acc
    ELSE FormattedPath(Replace(acc,
                               <<"{">> \o Head(path_params) \o <<"}">>,
                               <<"$", "{">> \o Head(path_params) \o <<"}">>),
                       Tail(path_params))

(* the callable's name *)
MethodName(method, path, operation) ==
    LET base == ToLowercase(method) \o CamelCase(FinalOperationId(path, operation))
    IN  IF ParamsDeclaration(extract_path_params(path)) # <<>>
        THEN base \o STR_ById ELSE base

(* the declared return type *)
ResponseType(operation, lang) ==
    LET r200 == IF "200" \in DOMAIN operation.responses
                THEN Some(operation.responses["200"]) ELSE None
        schema == IF IsSome(r200) THEN Unwrap(r200).response_schema ELSE None
        reference == IF IsSome(schema) THEN Unwrap(schema).reference ELSE None
        raw == IF IsSome(reference) THEN Unwrap(reference) ELSE STR_any
        response_schema == IF StartsWith(raw, STR_definitions_prefix)
                           THEN Replace(raw, STR_definitions_prefix, <<>>)
                           ELSE raw
    IN  IF lang = "typescript"
        THEN STR_Promise_open \o response_schema \o STR_Promise_close
        ELSE STR_Promise_any

(* generate_service_method: the pieces the final format!() lays out *)
generate_service_method(method, path, operation, lang) ==
    LET data_param == IF method = STR_get \/ method = STR_delete
                      THEN "" ELSE "data?: any, "
    IN  [method_name        |-> MethodName(method, path, operation),
         params_declaration |-> ParamsDeclaration(extract_path_params(path)),
         data_param         |-> data_param,
         response_type      |-> ResponseType(operation, lang),
         method             |-> method,
         formatted_path     |-> FormattedPath(path, extract_path_params(path)),
         data_arg           |-> IF data_param = "" THEN "" ELSE "data, "]


----------------------------------------------------------------------------
(* Service module *)

(* generate_service panics on a failed generate_info_comment, on absent or
   empty schemes (unwrap, index 0) and on an absent host or basePath *)
ServicePanics(doc) ==
    \/ InfoCommentPanics(doc)
    \/ ~IsSome(doc.schemes)
    \/ Unwrap(doc.schemes) = <<>>
    \/ ~IsSome(doc.host)
    \/ ~IsSome(doc.basePath)

(* the import generated for one directory entry *)
InterfaceName(file_name) == Replace(file_name, STR_dot_ts, <<>>)

(* the functions of one path item, in the fixed order get, post, put, delete *)
PathItemMethods(path, path_item, lang) ==
    (IF IsSome(path_item.get)
     THEN <<generate_service_method(STR_get, path, Unwrap(path_item.get), lang)>>
     ELSE <<>>)
    \o (IF IsSome(path_item.post)
        THEN <<generate_service_method(STR_post, path, Unwrap(path_item.post), lang)>>
        ELSE <<>>)
    \o (IF IsSome(path_item.put)
        THEN <<generate_service_method(STR_put, path, Unwrap(path_item.put), lang)>>
        ELSE <<>>)
    \o (IF IsSome(path_item.delete)
        THEN <<generate_service_method(STR_delete, path, Unwrap(path_item.delete), lang)>>
        ELSE <<>>)

(* generate_service; listing is the order in which read_dir yields the file
   names of output/interfaces, path_order the order in which the HashMap of
   paths yields its keys *)
generate_service(doc, lang, listing, path_order) ==
    IF ServicePanics(doc) THEN [panicked |-> TRUE]
    ELSE [panicked |-> FALSE,
          header   |-> generate_info_comment(doc),
          base_url |-> <<Unwrap(doc.schemes)[1], "://", Unwrap(doc.host),
                         Unwrap(doc.basePath)>>,
          imports  |-> IF lang = "typescript"
                       THEN [i \in DOMAIN listing |-> InterfaceName(listing[i])]
                       ELSE <<>>,
          methods  |-> ConcatAll([i \in DOMAIN path_order |->
                           PathItemMethods(path_order[i], doc.paths[path_order[i]], lang)])]

(* the file main creates for a definition, inside output/interfaces *)
InterfaceFile(name) == name \o STR_dot_ts

----------------------------------------------------------------------------
(* Bounds of the explored inputs *)

MaxProps == 2

MaxSegs == 2

----------------------------------------------------------------------------
(* Input documents *)

N_User == <<"U", "s", "e", "r">>

N_Pet == <<"P", "e", "t">>

N_Old == <<"O", "l", "d">>

N_dotted == <<"M", "y", ".", "t", "s", "T", "y", "p", "e">>

Prop(type, additional, reference) ==
    [property_type |-> type, format |-> None, additional |-> additional,
     reference |-> reference]

Items(v) == "items" :> v

ItemsOfType(kind) == Items(VObject("type" :> VString(kind)))

NoAdditional == <<>>

(* properties that exercise every branch of the type match *)
AllProperties ==
    {Prop(Some(t), NoAdditional, None) : t \in {"integer", "string", "boolean", "number"}}
    \cup {Prop(None, NoAdditional, None), Prop(Some("string"), NoAdditional, Some(N_Pet))}
    \cup {Prop(Some("array"), ItemsOfType(k), None) :
              k \in {"integer", "string", "boolean", "object"}}
    \cup {Prop(Some("array"), NoAdditional, None),
          Prop(Some("array"), Items(VObject(<<>>)), None),
          Prop(Some("array"), Items(VObject("type" :> VNumber)), None),
          Prop(Some("array"), Items(VString("integer")), None)}
    \cup {Prop(Some("object"), NoAdditional, r) :
              r \in {None, Some(N_User), Some(N_Pet),
                     Some(STR_definitions_prefix \o N_User),
                     Some(STR_definitions_prefix \o N_Pet)}}

(* a few of them, for schemas with several properties *)
SomeProperties ==
    {Prop(Some("integer"), NoAdditional, None),
     Prop(Some("string"), NoAdditional, None),
     Prop(Some("array"), ItemsOfType("string"), None),
     Prop(Some("array"), NoAdditional, None)}

PropNameList == <<"id", "name", "tags", "owner">>

PropNames == {PropNameList[i] : i \in 1..MaxProps}

(* required lists: the names of a subset of the property names and of one
   name that is no property, or no list at all *)
RequiredList(S) ==
    LET names == PropNameList \o <<"ghost">>
        Pick[i \in 0..Len(names)] ==
            IF i = 0 THEN <<>>
            ELSE IF names[i] \in S THEN Pick[i - 1] \o <<names[i]>> ELSE Pick[i - 1]
    IN  Pick[Len(names)]

RequiredLists ==
    {None} \cup {Some(RequiredList(S)) : S \in SUBSET (PropNames \cup {"ghost"})}

Def(properties, required) ==
    [definition_type |-> Some("object"), properties |-> properties,
     required |-> required]

PropertyMaps(Props) ==
    UNION {[S -> Props] : S \in SUBSET PropNames}

TypeDefinitions ==
    {Def(Some(m), r) : m \in PropertyMaps(SomeProperties), r \in RequiredLists}
    \cup {Def(Some("id" :> p), r) :
              p \in AllProperties, r \in {None, Some(<<>>), Some(<<"id">>)}}
    \cup {Def(None, r) : r \in {None, Some(<<"id">>)}}

BaseDefinition == Def(Some("id" :> Prop(Some("integer"), NoAdditional, None)), Some(<<"id">>))

Segments ==
    {<<"u", "s", "e", "r", "s">>, <<"{", "i", "d", "}">>, <<"{", "x", "}">>,
     <<"v", "{", "i", "d", "}">>, <<"u", "s", "e", "r", "_", "l", "i", "s", "t">>, <<>>}

(* path templates: up to MaxSegs segments, each after a '/' *)
RECURSIVE PathsOfLength(_)
PathsOfLength(n) ==
    IF n = 0 THEN {<<>>}
    ELSE {p \o <<"/">> \o seg : p \in PathsOfLength(n - 1), seg \in Segments}

Paths == UNION {PathsOfLength(n) : n \in 0..MaxSegs}

BasePath == <<"/", "u", "s", "e", "r", "s", "/", "{", "i", "d", "}">>

Resp(schema) == [description |-> "OK", response_schema |-> schema]

Ref(r) == Some([schema_type |-> None, reference |-> r])

ResponseMaps ==
    {<<>>,
     "200" :> Resp(None),
     "200" :> Resp(Ref(None)),
     "200" :> Resp(Ref(Some(N_User))),
     "200" :> Resp(Ref(Some(STR_definitions_prefix \o N_User))),
     "200" :> Resp(Ref(Some(STR_definitions_prefix \o STR_definitions_prefix \o N_User))),
     "200" :> Resp(Ref(Some(N_Pet \o STR_definitions_prefix \o N_User))),
     "404" :> Resp(Ref(Some(STR_definitions_prefix \o N_Pet))),
     ("200" :> Resp(Ref(Some(STR_definitions_prefix \o N_User))))
         @@ ("404" :> Resp(Ref(Some(STR_definitions_prefix \o N_Pet)))),
     ("200" :> Resp(None))
         @@ ("201" :> Resp(Ref(Some(STR_definitions_prefix \o N_Pet))))}

OperationIds ==
    {None, Some(STR_unknown), Some(<<"g", "e", "t", "U", "s", "e", "r">>),
     Some(<<"l", "i", "s", "t", "_", "u", "s", "e", "r", "s">>), Some(<<>>)}

Oper(id, responses) == [operation_id |-> id, summary |-> None, responses |-> responses]

BaseResponses == "200" :> Resp(Ref(Some(STR_definitions_prefix \o N_User)))

BaseOperation == Oper(None, BaseResponses)

Item(g, po, pu, d) == [get |-> g, post |-> po, put |-> pu, delete |-> d]

PathItems ==
    {Item(Some(BaseOperation), None, None, None)}
    \cup {Item(g, po, pu, d) : g, po, pu, d \in {None, Some(BaseOperation)}}

PathMaps ==
    {p :> Item(Some(Oper(id, BaseResponses)), None, None, None) :
         p \in Paths, id \in OperationIds}
    \cup {BasePath :> Item(Some(Oper(id, r)), None, None, None) :
              id \in OperationIds, r \in ResponseMaps}
    \cup {BasePath :> it : it \in PathItems}
    \cup {(BasePath :> Item(Some(BaseOperation), None, None, None))
              @@ (<<"/", "p", "e", "t", "s">> :> Item(Some(BaseOperation), Some(BaseOperation), None, None))}

BasePaths == BasePath :> Item(Some(BaseOperation), None, None, None)

BaseInfo ==
    ("version" :> VString("1.0")) @@ ("title" :> VString("Users"))
        @@ ("description" :> VString("User API"))

Infos ==
    {BaseInfo,
     ("version" :> VString("1.0")) @@ ("title" :> VString("Users")),
     ("version" :> VNumber) @@ ("title" :> VString("Users"))
        @@ ("description" :> VString("User API")),
     <<>>}

Doc(info, definitions, paths, schemes, host, base_path) ==
    [info |-> info, definitions |-> definitions, paths |-> paths,
     schemes |-> schemes, host |-> host, basePath |-> base_path]

Transports ==
    {<<s, h, b>> : s \in {None, Some(<<>>), Some(<<"https", "http">>)},
                   h \in {None, Some("api.example.com")},
                   b \in {None, Some("/v1")}}

StdDoc(definitions, paths) ==
    Doc(BaseInfo, definitions, paths, Some(<<"https">>), Some("api.example.com"), Some("/v1"))

DefinitionMaps ==
    {N_User :> d : d \in TypeDefinitions}
    \cup {<<>>, N_dotted :> BaseDefinition,
          (N_User :> BaseDefinition) @@ (N_Pet :> BaseDefinition)}

Documents ==
    {StdDoc(dm, BasePaths) : dm \in DefinitionMaps}
    \cup {StdDoc(N_User :> BaseDefinition, pm) : pm \in PathMaps}
    \cup {Doc(i, N_User :> BaseDefinition, BasePaths, t[1], t[2], t[3]) :
              i \in Infos, t \in Transports}
    \cup {Doc(<<>>, <<>>, BasePaths, None, None, None)}

(* a file an earlier run left in output/interfaces *)
StaleInterface(name) ==
    generate_typescript_interface(StdDoc(<<>>, <<>>), name, Def(None, None), <<>>)

InitialDirs ==
    {<<>>,
     InterfaceFile(N_Old) :> StaleInterface(N_Old),
     InterfaceFile(N_User) :> StaleInterface(N_User)}

----------------------------------------------------------------------------
(* main *)

Init ==
    /\ pc = "start"
    /\ input \in {"missing", "invalid", "ok"}
    /\ swagger \in Documents
    /\ input # "ok" => swagger = StdDoc(N_User :> BaseDefinition, BasePaths)
    /\ todo = {}
    /\ initial_dir \in InitialDirs
    /\ interfaces_dir = initial_dir
    /\ service_file = None
    /\ run = "first"
    /\ first_run = None

(* File::open(..)?, read_to_string(..)?, serde_json::from_str(..).expect(..) *)
ReadSwagger ==
    /\ pc = "start"
    /\ pc' = IF input = "missing" THEN "io_error"
             ELSE IF input = "invalid" THEN "panicked"
             ELSE "create_dir"
    /\ UNCHANGED <<input, swagger, todo, initial_dir, interfaces_dir, service_file,
                   run, first_run>>

(* create_dir_all("output/interfaces")?: what the directory holds stays *)
CreateDirAll ==
    /\ pc = "create_dir"
    /\ pc' = "interfaces"
    /\ todo' = DOMAIN swagger.definitions
    /\ UNCHANGED <<input, swagger, initial_dir, interfaces_dir, service_file,
                   run, first_run>>

(* one iteration of the loop over swagger.definitions: the HashMap yields
   some definition not yet visited, and that definition's properties in
   some order *)
WriteInterface ==
    /\ pc = "interfaces"
    /\ \E name \in todo :
         LET definition == swagger.definitions[name]
             keys == IF IsSome(definition.properties)
                     THEN DOMAIN Unwrap(definition.properties) ELSE {}
         IN  \E order \in Orders(keys) :
               LET ts_interface ==
                       generate_typescript_interface(swagger, name, definition, order)
               IN  IF ts_interface.panicked
                   THEN /\ pc' = "panicked"
                        /\ UNCHANGED <<todo, interfaces_dir>>
                   ELSE /\ pc' = "interfaces"
                        /\ todo' = todo \ {name}
                        /\ interfaces_dir' =
                               [f \in DOMAIN interfaces_dir \cup {InterfaceFile(name)} |->
                                   IF f = InterfaceFile(name) THEN ts_interface
                                   ELSE interfaces_dir[f]]
    /\ UNCHANGED <<input, swagger, initial_dir, service_file, run, first_run>>

(* write_service(&swagger, "typescript", "output/service.ts") after the loop:
   read_dir lists the directory in some order, the HashMap of paths yields
   its keys in some order *)
WriteService ==
    /\ pc = "interfaces"
    /\ todo = {}
    /\ \E listing \in Orders(DOMAIN interfaces_dir), path_order \in Orders(DOMAIN swagger.paths) :
         LET service == generate_service(swagger, "typescript", listing, path_order)
         IN  IF service.panicked
             THEN /\ pc' = "panicked"
                  /\ UNCHANGED service_file
             ELSE /\ pc' = "done"
                  /\ service_file' = Some(service)
    /\ UNCHANGED <<input, swagger, todo, initial_dir, interfaces_dir, run, first_run>>

(* the engine is run a second time on the unchanged document, the output
   directory put back to what it held before the first run *)
RunAgain ==
    /\ pc = "done"
    /\ run = "first"
    /\ run' = "second"
    /\ first_run' = Some([interfaces |-> interfaces_dir, service |-> Unwrap(service_file)])
    /\ interfaces_dir' = initial_dir
    /\ service_file' = None
    /\ pc' = "start"
    /\ UNCHANGED <<input, swagger, todo, initial_dir>>

Next ==
    \/ ReadSwagger
    \/ CreateDirAll
    \/ WriteInterface
    \/ WriteService
    \/ RunAgain

Spec == Init /\ [][Next]_vars


----------------------------------------------------------------------------
(* Vocabulary of the properties *)

(* the definitions whose interface file this run has written so far *)
Emitted ==
    IF input = "ok" /\ pc \in {"interfaces", "done", "panicked"}
    THEN DOMAIN swagger.definitions \ todo
    ELSE {}

(* the interface this run wrote for an emitted definition *)
EmittedInterface(name) == interfaces_dir[InterfaceFile(name)]

(* the properties of a definition, as a mapping *)
PropertiesOf(definition) ==
    IF IsSome(definition.properties) THEN Unwrap(definition.properties) ELSE <<>>

Range(seq) == {seq[i] : i \in DOMAIN seq}

(* position of the first '}' of s, 0 when there is none *)
FirstClose(s) ==
    IF \E j \in DOMAIN s : s[j] = "}"
    THEN CHOOSE j \in DOMAIN s : s[j] = "}" /\ \A k \in 1..(j - 1) : s[k] # "}"
    ELSE 0

(* the names of the {name} placeholders of a path template, wherever they
   stand, left to right *)
RECURSIVE Placeholders(_)
Placeholders(s) ==
    IF s = <<>> THEN <<>>
    ELSE IF Head(s) = "{" /\ FirstClose(s) > 0
         THEN <<SubSeq(s, 2, FirstClose(s) - 1)>>
                  \o Placeholders(SubSeq(s, FirstClose(s) + 1, Len(s)))
         ELSE Placeholders(Tail(s))

(* a sequence without its repeated elements, first appearances kept *)
RECURSIVE Unique(_)
Unique(seq) ==
    IF seq = <<>> THEN <<>>
    ELSE LET init == Unique(SubSeq(seq, 1, Len(seq) - 1))
             last == seq[Len(seq)]
         IN  IF last \in Range(init) THEN init ELSE init \o <<last>>

(* the path with one '$' put before every {name} placeholder *)
RECURSIVE Interpolated(_)
Interpolated(s) ==
    IF s = <<>> THEN <<>>
    ELSE IF Head(s) = "{" /\ FirstClose(s) > 0
         THEN <<"$">> \o SubSeq(s, 1, FirstClose(s))
                  \o Interpolated(SubSeq(s, FirstClose(s) + 1, Len(s)))
         ELSE <<Head(s)>> \o Interpolated(Tail(s))

(* s without one leading occurrence of prefix *)
StripPrefix(s, prefix) ==
    IF StartsWith(s, prefix) THEN SubSeq(s, Len(prefix) + 1, Len(s)) ELSE s

(* the (path, method, operation) triples of the document *)
Operations ==
    {<<path, STR_get, Unwrap(swagger.paths[path].get)>> :
         path \in {q \in DOMAIN swagger.paths : IsSome(swagger.paths[q].get)}}
    \cup {<<path, STR_post, Unwrap(swagger.paths[path].post)>> :
              path \in {q \in DOMAIN swagger.paths : IsSome(swagger.paths[q].post)}}
    \cup {<<path, STR_put, Unwrap(swagger.paths[path].put)>> :
              path \in {q \in DOMAIN swagger.paths : IsSome(swagger.paths[q].put)}}
    \cup {<<path, STR_delete, Unwrap(swagger.paths[path].delete)>> :
              path \in {q \in DOMAIN swagger.paths : IsSome(swagger.paths[q].delete)}}

(* the functions of the service module this run wrote; the properties below
   ask, for every operation of the document, for a function of its HTTP
   method among them *)
WrittenMethods == IF IsSome(service_file) THEN Range(Unwrap(service_file).methods) ELSE {}

----------------------------------------------------------------------------
(* C1: in every interface file written by the run, the fields are exactly
   the keys of the schema's property mapping (so a required name that is no
   property yields no field), and a field carries '?' iff the schema has a
   required list and the list does not contain the field's name. *)
C1_Optionality ==
    \A name \in Emitted :
        LET definition == swagger.definitions[name]
            fields == EmittedInterface(name).fields
        IN  /\ {fields[i].prop_name : i \in DOMAIN fields} = DOMAIN PropertiesOf(definition)
            /\ Len(fields) = Cardinality(DOMAIN PropertiesOf(definition))
            /\ \A i \in DOMAIN fields :
                   (fields[i].optional = "?")
                       <=> (/\ IsSome(definition.required)
                            /\ fields[i].prop_name \notin Range(Unwrap(definition.required)))
            /\ \A i \in DOMAIN fields : fields[i].optional \in {"?", ""}

(* a schema with a required list naming one of its two properties and a name
   that is no property has been emitted, one field optional, one not *)
C1_Witness ==
    \E name \in Emitted :
        LET definition == swagger.definitions[name]
            fields == EmittedInterface(name).fields
        IN  /\ IsSome(definition.required)
            /\ "ghost" \in Range(Unwrap(definition.required))
            /\ \E i, j \in DOMAIN fields :
                   /\ fields[i].optional = "?"
                   /\ fields[j].optional = ""
                   /\ fields[j].prop_name \in Range(Unwrap(definition.required))

(* a schema without a required list has been emitted with a property *)
C1_WitnessAbsent ==
    \E name \in Emitted :
        /\ ~IsSome(swagger.definitions[name].required)
        /\ EmittedInterface(name).fields # <<>>


----------------------------------------------------------------------------
(* what C2 asks of the function m generated for path *)
C2_Holds(path, operation, m) ==
    LET names == Unique(Placeholders(path))
    IN  IF names # <<>>
        THEN /\ EndsWith(m.method_name, STR_ById)
             /\ m.params_declaration = ParamsDeclaration(names)
        ELSE /\ ~EndsWith(m.method_name, STR_ById)
             /\ m.params_declaration = <<>>

(* C2: the function generated for a path with at least one {param}
   placeholder has a name ending in ById and declares exactly one
   "name: string" parameter per distinct placeholder name, in order of first
   appearance; the function generated for a path without placeholders
   declares no path parameter and its name does not end in ById. *)
C2_PathParameters ==
    IsSome(service_file) =>
        \A op \in Operations :
            \E m \in WrittenMethods : m.method = op[2] /\ C2_Holds(op[1], op[3], m)

(* what C3 asks of the function m generated for path *)
C3_Holds(path, operation, m) == m.formatted_path = Interpolated(path)

(* C3: the URL template of the function generated for a path is the path
   with every {name} placeholder rewritten to ${name}, nothing else changed. *)
C3_UrlTemplate ==
    IsSome(service_file) =>
        \A op \in Operations :
            \E m \in WrittenMethods : m.method = op[2] /\ C3_Holds(op[1], op[3], m)

(* what C4 asks of the function m generated for path and operation *)
C4_Holds(path, operation, m) ==
    LET base == IF IsSome(operation.operation_id)
                THEN Unwrap(operation.operation_id)
                ELSE FallbackOperationId(path)
        suffix == IF Placeholders(path) # <<>> THEN STR_ById ELSE <<>>
    IN  m.method_name = ToLowercase(m.method) \o CamelCase(base) \o suffix

(* C4: the name of the generated function is the lower-cased method, then
   the camel-cased base name, then ById when the path has placeholders; the
   base name is the operation's identifier whenever it has one, and the
   path-derived fallback only when it has none. *)
C4_Naming ==
    IsSome(service_file) =>
        \A op \in Operations :
            \E m \in WrittenMethods : m.method = op[2] /\ C4_Holds(op[1], op[3], m)

(* what C5 asks of the function m generated for operation *)
C5_Holds(path, operation, m) ==
    LET has_ref == /\ "200" \in DOMAIN operation.responses
                   /\ IsSome(operation.responses["200"].response_schema)
                   /\ IsSome(Unwrap(operation.responses["200"].response_schema).reference)
    IN  m.response_type =
            IF has_ref
            THEN STR_Promise_open
                     \o StripPrefix(Unwrap(Unwrap(operation.responses["200"].response_schema).reference),
                                    STR_definitions_prefix)
                     \o STR_Promise_close
            ELSE STR_Promise_any

(* C5: the declared return type is Promise<T>, T being the reference of the
   "200" response's schema without its leading #/definitions/ and otherwise
   unchanged; it is Promise<any> when the "200" response, its schema or its
   reference is absent.  No other status code matters. *)
C5_ReturnType ==
    IsSome(service_file) =>
        \A op \in Operations :
            \E m \in WrittenMethods : m.method = op[2] /\ C5_Holds(op[1], op[3], m)

(* the item kind of an array property, None when there is no items entry,
   when items has no type, or when the type is no string *)
ItemKind(prop) ==
    IF "items" \in DOMAIN prop.additional
       /\ prop.additional["items"].tag = "object"
       /\ "type" \in DOMAIN prop.additional["items"].fields
       /\ prop.additional["items"].fields["type"].tag = "string"
    THEN Some(prop.additional["items"].fields["type"].str)
    ELSE None

(* the loop over the definitions stopped in a panic although the header
   comment could be written *)
EmitterFailed ==
    /\ input = "ok"
    /\ pc = "panicked"
    /\ todo # {}
    /\ ~InfoCommentPanics(swagger)

(* C6: an array property is rendered number[], string[] or boolean[] when
   its item kind is integer, string or boolean, and any[] for every other
   or missing item kind, a missing items entry included; the emitter
   returns an artifact in each of these cases. *)
C6_ArrayTyping ==
    /\ \A name \in Emitted :
           LET fields == EmittedInterface(name).fields
               properties == PropertiesOf(swagger.definitions[name])
           IN  \A i \in DOMAIN fields :
                   LET prop == properties[fields[i].prop_name]
                   IN  prop.property_type = Some("array") =>
                           fields[i].ts_type =
                               IF ItemKind(prop) = Some("integer") THEN STR_number_arr
                               ELSE IF ItemKind(prop) = Some("string") THEN STR_string_arr
                               ELSE IF ItemKind(prop) = Some("boolean") THEN STR_boolean_arr
                               ELSE STR_any_arr
    /\ ~EmitterFailed

(* C7: an object property with a reference is rendered as the reference
   without its #/definitions/ prefix, one without a reference as any;
   whether the referenced schema exists plays no part. *)
C7_ObjectTyping ==
    \A name \in Emitted :
        LET fields == EmittedInterface(name).fields
            properties == PropertiesOf(swagger.definitions[name])
        IN  \A i \in DOMAIN fields :
                LET prop == properties[fields[i].prop_name]
                IN  prop.property_type = Some("object") =>
                        fields[i].ts_type =
                            IF IsSome(prop.reference)
                            THEN StripPrefix(Unwrap(prop.reference), STR_definitions_prefix)
                            ELSE STR_any

(* C8: a run on a document that was read and parsed never aborts. *)
C8_NoFailureAfterParse == input = "ok" => pc \notin {"panicked", "io_error"}

(* C9: a second run on the same document, from the same output directory,
   writes the same bytes as the first: every interface file as soon as it is
   written, the service module at the end. *)
C9_Idempotent ==
    run = "second" =>
        /\ \A name \in Emitted :
               /\ InterfaceFile(name) \in DOMAIN Unwrap(first_run).interfaces
               /\ EmittedInterface(name) = Unwrap(first_run).interfaces[InterfaceFile(name)]
        /\ IsSome(service_file) => Unwrap(service_file) = Unwrap(first_run).service

(* C10: the service module is written only when the interface of every
   definition has been written, and it imports exactly the schema names of
   the document, each once, whatever the directory held before the run. *)
C10_ImportSet ==
    IsSome(service_file) =>
        /\ Emitted = DOMAIN swagger.definitions
        /\ Range(Unwrap(service_file).imports) = DOMAIN swagger.definitions
        /\ Len(Unwrap(service_file).imports) = Cardinality(DOMAIN swagger.definitions)


====
